---- MODULE Spec2Model ----
(***************************************************************************)
(* A model of the DgraphTransaction class (src/src/DgraphTransaction.js):  *)
(* one transaction handle, its private fields, and its public methods      *)
(* query, mutate, commit and abort.  Every method call is one action; the  *)
(* outcomes of the fetch calls it makes are inputs of the action.          *)
(***************************************************************************)
EXTENDS Integers, Sequences, FiniteSets, TLC

VARIABLES
  phase,          \* "new": not constructed yet, "live": a handle exists, "failed": the constructor threw
  keys,           \* #keys
  preds,          \* #preds
  hash,           \* #hash
  apiKey,         \* #apiKey
  endpoint,       \* #endpoint
  startTs,        \* #startTs
  timeout,        \* #timeout
  readOnly,       \* #readOnly
  bestEffort,     \* #bestEffort
  isClosed,       \* #isClosed
  isCommited,     \* #isCommited
  isAborted,      \* #isAborted
  didMutations,   \* #didMutations
  lastCall,       \* what the latest call was given, sent, received and delivered to its caller
  history,        \* what the calls so far were told by the server and asked of it
  pending         \* the calls suspended at an await, when calls are interleaved

vars == <<phase, keys, preds, hash, apiKey, endpoint, startTs, timeout, readOnly,
          bestEffort, isClosed, isCommited, isAborted, didMutations, lastCall, history,
          pending>>

-----------------------------------------------------------------------------
(* Values *)

DefaultTimeout == 600

dql == "application/dql"
rdf == "application/rdf"
json == "application/json"

\* The values the environment (caller and server) supplies.
ApiKeys == {"", "abc"}
Endpoints == {"", "https://example.com"}
Timeouts == {0, 20}                \* 0: timeout not given (falsy)
QueryTexts == {"{ q(func: uid(1)) { uid } }"}
MutationTexts == {"", "<abc> <name> \"x\" ."}
RemoveTexts == {"", "<abc> * * ."}
Hashes == {"", "h1", "h2"}         \* "": the response carries no hash
NumStartTs == 2                    \* how many start timestamps the server hands out
StartTimestamps == {9 * n : n \in 1..NumStartTs}
KeyLists == <<(<<"abc", "def">>), (<<"def", "ghi">>)>>
PredLists == <<(<<"name">>), (<<"name", "age">>)>>
Statuses == {199, 200, 300, 400}

\* extensions.txn of a response; hasKeys / hasPreds: the list is present.
\* A response carries both lists (a mutation's) or neither (a query's).
Txns == {[hash |-> hs, start_ts |-> ts, hasKeys |-> TRUE, keys |-> KeyLists[i],
          hasPreds |-> TRUE, preds |-> PredLists[i]] :
            hs \in Hashes, ts \in StartTimestamps, i \in DOMAIN KeyLists}
        \cup [hash : Hashes, start_ts : StartTimestamps, hasKeys : {FALSE},
              keys : {<<>>}, hasPreds : {FALSE}, preds : {<<>>}]

NoTxn == [hash |-> "", start_ts |-> 0, hasKeys |-> FALSE, keys |-> <<>>,
          hasPreds |-> FALSE, preds |-> <<>>]

\* The body of a response: valid = it parses as JSON; hasTxn = r.extensions.txn exists
NoBody == [valid |-> FALSE, hasTxn |-> FALSE, txn |-> NoTxn]
EmptyJson == [valid |-> TRUE, hasTxn |-> FALSE, txn |-> NoTxn]
Bodies == [valid : {TRUE}, hasTxn : {TRUE}, txn : Txns] \cup {EmptyJson, NoBody}

Reject == [kind |-> "reject", status |-> 0, body |-> NoBody]
Ok == [kind |-> "resp", status |-> 200, body |-> EmptyJson]

\* What one fetch call does: the promise rejects, or resolves to a response.
\* A 200 response carries any body; the others carry no transaction metadata.
Outcomes == {Reject}
            \cup [kind : {"resp"}, status : {200}, body : Bodies]
            \cup [kind : {"resp"}, status : {s \in Statuses : s < 200}, body : {EmptyJson}]
            \cup [kind : {"resp"}, status : {s \in Statuses : s >= 300}, body : {NoBody}]

\* The outcomes drawn for the request an abort sends (its body is never reconciled)
AbortOutcomes == {o \in Outcomes : ~o.body.hasTxn}

\* Values a call delivers to its caller
Nothing == [kind |-> "nothing", body |-> NoBody]
Parsed(b) == [kind |-> "json", body |-> b]

NoError == [kind |-> "none", id |-> "", status |-> 0,
            transactionStartTs |-> 0, responseStartTs |-> 0]
Err(id) == [kind |-> "error", id |-> id, status |-> 0,
            transactionStartTs |-> 0, responseStartTs |-> 0]
MismatchErr(t, r) == [kind |-> "error", id |-> "fln__dgraph__start-ts-mismatch", status |-> 0,
                      transactionStartTs |-> t, responseStartTs |-> r]
\* the rejected fetch's reason, the response thrown by #api, the SyntaxError of json()
Thrown(o) == [kind |-> IF o.kind = "reject" THEN "fetch-rejected"
                       ELSE IF o.status >= 300 THEN "response" ELSE "json-rejected",
              id |-> "", status |-> o.status,
              transactionStartTs |-> 0, responseStartTs |-> 0]

NoArgs == [closeWhenDone |-> FALSE, query |-> "", hasParams |-> FALSE,
           mutation |-> "", remove |-> "", commitNow |-> FALSE]

-----------------------------------------------------------------------------
(* The handle as a value, and what a method hands back *)

H == [keys |-> keys, preds |-> preds, hash |-> hash, apiKey |-> apiKey,
      endpoint |-> endpoint, startTs |-> startTs, timeout |-> timeout,
      readOnly |-> readOnly, bestEffort |-> bestEffort, isClosed |-> isClosed,
      isCommited |-> isCommited, isAborted |-> isAborted, didMutations |-> didMutations]

\* h: the handle afterwards; reqs: the requests sent, in order; fetched: the
\* outcomes of those requests; thrown / ret: what the caller gets; rest: the
\* outcomes not consumed
Returns(h, ret, outs) == [h |-> h, reqs |-> <<>>, fetched |-> <<>>, thrown |-> NoError,
                          ret |-> ret, rest |-> outs]
Throws(h, e, outs) == [h |-> h, reqs |-> <<>>, fetched |-> <<>>, thrown |-> e,
                       ret |-> Nothing, rest |-> outs]

-----------------------------------------------------------------------------
(* URLSearchParams and JSON.stringify *)

set(searchParams, name, value) == Append(searchParams, <<name, value>>)

RECURSIVE toString(_)
toString(searchParams) ==
  IF searchParams = <<>> THEN ""
  ELSE searchParams[1][1] \o "=" \o searchParams[1][2]
       \o (IF Len(searchParams) > 1 THEN "&" \o toString(Tail(searchParams)) ELSE "")

RECURSIVE stringifyItems(_)
stringifyItems(array) ==
  IF array = <<>> THEN ""
  ELSE "\"" \o array[1] \o "\""
       \o (IF Len(array) > 1 THEN "," \o stringifyItems(Tail(array)) ELSE "")

stringify(ks, ps) ==
  "{\"keys\":[" \o stringifyItems(ks) \o "],\"preds\":[" \o stringifyItems(ps) \o "]}"

-----------------------------------------------------------------------------
(* #mergeArrays and #syncResponseExtensions *)

RECURSIVE ArrayFromSet(_, _)
ArrayFromSet(united, unique) ==
  IF united = <<>> THEN unique
  ELSE ArrayFromSet(Tail(united),
                    IF \E i \in 1..Len(unique) : unique[i] = Head(united)
                    THEN unique ELSE Append(unique, Head(united)))

\* faulty variant: the second array replaces the first
mergeArraysReplaces(array1, array2) == array2

mergeArrays(array1, array2) == ArrayFromSet(array1 \o array2, <<>>)

\* faulty variant: the response's start_ts is adopted whatever the handle holds
syncResponseExtensionsAdopts(h, extensionsTxn) ==
  [h |-> [h EXCEPT !.hash = IF extensionsTxn.hash # "" THEN extensionsTxn.hash ELSE @,
                   !.startTs = extensionsTxn.start_ts,
                   !.keys = IF extensionsTxn.hasKeys
                            THEN mergeArrays(@, extensionsTxn.keys) ELSE @,
                   !.preds = IF extensionsTxn.hasPreds
                             THEN mergeArrays(@, extensionsTxn.preds) ELSE @],
   thrown |-> NoError]

\* faulty variant: the mismatch error names the two timestamps the wrong way round
syncResponseExtensionsSwaps(h, extensionsTxn) ==
  LET h1 == IF extensionsTxn.hash # "" THEN [h EXCEPT !.hash = extensionsTxn.hash] ELSE h
      merged(h2) ==
        LET h3 == IF extensionsTxn.hasKeys
                  THEN [h2 EXCEPT !.keys = mergeArrays(h2.keys, extensionsTxn.keys)] ELSE h2
        IN IF extensionsTxn.hasPreds
           THEN [h3 EXCEPT !.preds = mergeArrays(h3.preds, extensionsTxn.preds)] ELSE h3
  IN IF h1.startTs = 0
     THEN [h |-> merged([h1 EXCEPT !.startTs = extensionsTxn.start_ts]), thrown |-> NoError]
     ELSE IF h1.startTs # extensionsTxn.start_ts
     THEN [h |-> h1, thrown |-> MismatchErr(extensionsTxn.start_ts, h1.startTs)]
     ELSE [h |-> merged(h1), thrown |-> NoError]

\* faulty variant: the hash of a response is adopted only while the handle has none
syncResponseExtensionsKeepsHash(h, extensionsTxn) ==
  LET h1 == IF extensionsTxn.hash # "" /\ h.hash = ""
            THEN [h EXCEPT !.hash = extensionsTxn.hash] ELSE h
      merged(h2) ==
        LET h3 == IF extensionsTxn.hasKeys
                  THEN [h2 EXCEPT !.keys = mergeArrays(h2.keys, extensionsTxn.keys)] ELSE h2
        IN IF extensionsTxn.hasPreds
           THEN [h3 EXCEPT !.preds = mergeArrays(h3.preds, extensionsTxn.preds)] ELSE h3
  IN IF h1.startTs = 0
     THEN [h |-> merged([h1 EXCEPT !.startTs = extensionsTxn.start_ts]), thrown |-> NoError]
     ELSE IF h1.startTs # extensionsTxn.start_ts
     THEN [h |-> h1, thrown |-> MismatchErr(h1.startTs, extensionsTxn.start_ts)]
     ELSE [h |-> merged(h1), thrown |-> NoError]

\* [h |-> the handle afterwards, thrown |-> the error thrown, or NoError]
syncResponseExtensions(h, extensionsTxn) ==
  LET h1 == IF extensionsTxn.hash # "" THEN [h EXCEPT !.hash = extensionsTxn.hash] ELSE h
      merged(h2) ==
        LET h3 == IF extensionsTxn.hasKeys
                  THEN [h2 EXCEPT !.keys = mergeArrays(h2.keys, extensionsTxn.keys)] ELSE h2
        IN IF extensionsTxn.hasPreds
           THEN [h3 EXCEPT !.preds = mergeArrays(h3.preds, extensionsTxn.preds)] ELSE h3
  IN IF h1.startTs = 0
     THEN [h |-> merged([h1 EXCEPT !.startTs = extensionsTxn.start_ts]), thrown |-> NoError]
     ELSE IF h1.startTs # extensionsTxn.start_ts
     THEN [h |-> h1, thrown |-> MismatchErr(h1.startTs, extensionsTxn.start_ts)]
     ELSE [h |-> merged(h1), thrown |-> NoError]

-----------------------------------------------------------------------------
(* #api and abort *)

Request(h, path, body, contentType) ==
  [method |-> "POST", url |-> h.endpoint \o "/" \o path, XAuthToken |-> h.apiKey,
   hasContentType |-> contentType # "", ContentType |-> contentType,
   hasBody |-> body # "", body |-> body]

\* the try block of #api throws: fetch rejected, the status test, or json() rejected
apiThrows(rFetch) ==
  \/ rFetch.kind = "reject"
  \/ rFetch.status >= 300
  \/ ~rFetch.body.valid

abortPath(h) ==
  "commit?" \o toString(set(set(set(<<>>, "startTs", ToString(h.startTs)),
                                "hash", h.hash), "abort", "true"))

RECURSIVE api(_, _, _, _, _)
RECURSIVE abort(_, _)

\* faulty variant: the handle is marked aborted once the abort request has returned
abortMarksLate(h, outs) ==
  IF ~h.isAborted
  THEN IF h.didMutations /\ outs # <<>>
       THEN LET a == api(h, abortPath(h), "", "", outs)
            IN [a EXCEPT !.h = [a.h EXCEPT !.isAborted = TRUE]]
       ELSE Returns([h EXCEPT !.isAborted = TRUE], Nothing, outs)
  ELSE Returns(h, Nothing, outs)

\* faulty variant: the aborted test is missing, every call sends the abort request
abortRepeats(h, outs) ==
  LET h1 == [h EXCEPT !.isAborted = TRUE]
  IN IF h1.didMutations /\ outs # <<>>
     THEN api(h1, abortPath(h1), "", "", outs)
     ELSE Returns(h1, Nothing, outs)

abort(h, outs) ==
  IF ~h.isAborted
  THEN LET h1 == [h EXCEPT !.isAborted = TRUE]
       IN IF h1.didMutations
          THEN api(h1, abortPath(h1), "", "", outs)
          ELSE Returns(h1, Nothing, outs)
  ELSE Returns(h, Nothing, outs)

api(h, path, body, contentType, outs) ==
  LET req == Request(h, path, body, contentType)
      rFetch == Head(outs)
  IN IF apiThrows(rFetch)
     THEN LET a == abort(h, Tail(outs))   \* catch (e) { await this.abort(); throw e }
          IN [h |-> a.h, reqs |-> <<req>> \o a.reqs, fetched |-> <<rFetch>> \o a.fetched,
              thrown |-> IF a.thrown # NoError THEN a.thrown ELSE Thrown(rFetch),
              ret |-> Nothing, rest |-> a.rest]
     ELSE [h |-> h, reqs |-> <<req>>, fetched |-> <<rFetch>>, thrown |-> NoError,
           ret |-> Parsed(rFetch.body), rest |-> Tail(outs)]

-----------------------------------------------------------------------------
(* query *)

\* faulty variant: the closed test is missing
validateQueryNoClosed(h) ==
  IF h.isAborted THEN Err("fln__dgraph__already-aborted")
  ELSE IF h.isCommited THEN Err("fln__dgraph__already-commited")
  ELSE NoError

\* faulty variant: the flags are tested in the order closed, committed, aborted
validateQueryClosedFirst(h) ==
  IF h.isClosed THEN Err("fln__dgraph__already-closed")
  ELSE IF h.isCommited THEN Err("fln__dgraph__already-commited")
  ELSE IF h.isAborted THEN Err("fln__dgraph__already-aborted")
  ELSE NoError

validateQuery(h) ==
  IF h.isAborted THEN Err("fln__dgraph__already-aborted")
  ELSE IF h.isCommited THEN Err("fln__dgraph__already-commited")
  ELSE IF h.isClosed THEN Err("fln__dgraph__already-closed")
  ELSE NoError

\* faulty variant: hash is set before startTs
queryPathHashFirst(h) ==
  LET p1 == IF h.hash # "" THEN set(<<>>, "hash", h.hash) ELSE <<>>
      p2 == IF h.startTs # 0 THEN set(p1, "startTs", ToString(h.startTs)) ELSE p1
      p3 == IF h.timeout > 0 THEN set(p2, "timeout", ToString(h.timeout) \o "s") ELSE p2
      p4 == IF h.readOnly THEN set(p3, "ro", "true") ELSE p3
      p5 == IF h.bestEffort THEN set(p4, "be", "true") ELSE p4
  IN "query?" \o toString(p5)

queryPath(h) ==
  LET p1 == IF h.startTs # 0 THEN set(<<>>, "startTs", ToString(h.startTs)) ELSE <<>>
      p2 == IF h.hash # "" THEN set(p1, "hash", h.hash) ELSE p1
      p3 == IF h.timeout > 0 THEN set(p2, "timeout", ToString(h.timeout) \o "s") ELSE p2
      p4 == IF h.readOnly THEN set(p3, "ro", "true") ELSE p3
      p5 == IF h.bestEffort THEN set(p4, "be", "true") ELSE p4
  IN "query?" \o toString(p5)

\* faulty variant: a start_ts mismatch aborts the handle like a failed request
afterApiAbortsOnMismatch(a, finish, flag) ==
  IF a.thrown # NoError THEN a
  ELSE IF finish THEN [a EXCEPT !.h = [a.h EXCEPT ![flag] = TRUE]]
  ELSE IF a.ret.body.hasTxn
  THEN LET s == syncResponseExtensions(a.h, a.ret.body.txn)
           b == abort(s.h, a.rest)
       IN IF s.thrown # NoError
          THEN [a EXCEPT !.h = b.h, !.reqs = a.reqs \o b.reqs,
                         !.fetched = a.fetched \o b.fetched,
                         !.thrown = s.thrown, !.ret = Nothing]
          ELSE [a EXCEPT !.h = s.h]
  ELSE a

\* faulty variant: the response's extensions.txn is reconciled before the flag is
\* set, also with closeWhenDone or commitNow
afterApiReconcilesFirst(a, finish, flag) ==
  IF a.thrown # NoError THEN a
  ELSE LET s == IF a.ret.body.hasTxn THEN syncResponseExtensions(a.h, a.ret.body.txn)
                ELSE [h |-> a.h, thrown |-> NoError]
       IN IF s.thrown # NoError
          THEN [a EXCEPT !.h = s.h, !.thrown = s.thrown, !.ret = Nothing]
          ELSE [a EXCEPT !.h = IF finish THEN [s.h EXCEPT ![flag] = TRUE] ELSE s.h]

\* after the awaited #api call: close, or reconcile the response's extensions.txn
afterApi(a, finish, flag) ==
  IF a.thrown # NoError THEN a
  ELSE IF finish THEN [a EXCEPT !.h = [a.h EXCEPT ![flag] = TRUE]]
  ELSE IF a.ret.body.hasTxn
  THEN LET s == syncResponseExtensions(a.h, a.ret.body.txn)
       IN IF s.thrown # NoError
          THEN [a EXCEPT !.h = s.h, !.thrown = s.thrown, !.ret = Nothing]
          ELSE [a EXCEPT !.h = s.h]
  ELSE a

\* faulty variant: the request is sent before the state is validated
queryValidatesLate(h, closeWhenDone, q, outs) ==
  LET a == api(h, queryPath(h), q, dql, outs)
      v == validateQuery(h)
  IN IF v # NoError THEN [a EXCEPT !.thrown = v, !.ret = Nothing]
     ELSE afterApi(a, closeWhenDone, "isClosed")

\* faulty variant: with closeWhenDone the response's extensions.txn is reconciled too
queryClosesAndReconciles(h, closeWhenDone, q, outs) ==
  LET v == validateQuery(h)
      a == afterApi(api(h, queryPath(h), q, dql, outs), FALSE, "isClosed")
  IN IF v # NoError THEN Throws(h, v, outs)
     ELSE IF a.thrown = NoError /\ closeWhenDone
     THEN [a EXCEPT !.h = [a.h EXCEPT !.isClosed = TRUE]]
     ELSE a

\* faulty variant: a request that failed is sent once more
queryRetries(h, closeWhenDone, q, outs) ==
  LET v == validateQuery(h)
      a == api(h, queryPath(h), q, dql, outs)
  IN IF v # NoError THEN Throws(h, v, outs)
     ELSE IF a.thrown # NoError /\ a.rest # <<>>
     THEN LET b == api(a.h, queryPath(a.h), q, dql, a.rest)
          IN afterApi([b EXCEPT !.reqs = a.reqs \o b.reqs, !.fetched = a.fetched \o b.fetched],
                      closeWhenDone, "isClosed")
     ELSE afterApi(a, closeWhenDone, "isClosed")

query(h, closeWhenDone, q, outs) ==
  LET v == validateQuery(h)
  IN IF v # NoError THEN Throws(h, v, outs)
     ELSE afterApi(api(h, queryPath(h), q, dql, outs), closeWhenDone, "isClosed")

-----------------------------------------------------------------------------
(* mutate *)

\* faulty variant: the committed test is missing
validateMutateNoCommited(h, params) ==
  IF ~params.hasParams THEN Err("fln__dgraph__missing-params")
  ELSE IF params.mutation = "" /\ params.remove = "" THEN Err("fln__dgraph__empty-mutate")
  ELSE IF params.mutation # "" /\ params.remove # "" THEN Err("fln__dgraph__full-mutate")
  ELSE IF h.isAborted THEN Err("fln__dgraph__already-aborted")
  ELSE IF h.isClosed THEN Err("fln__dgraph__already-closed")
  ELSE IF h.readOnly THEN Err("fln__dgraph__readonly-mutation")
  ELSE NoError

\* faulty variant: the state is tested before the input
validateMutateStateFirst(h, params) ==
  IF h.isAborted THEN Err("fln__dgraph__already-aborted")
  ELSE IF h.isCommited THEN Err("fln__dgraph__already-commited")
  ELSE IF h.isClosed THEN Err("fln__dgraph__already-closed")
  ELSE IF ~params.hasParams THEN Err("fln__dgraph__missing-params")
  ELSE IF params.mutation = "" /\ params.remove = "" THEN Err("fln__dgraph__empty-mutate")
  ELSE IF params.mutation # "" /\ params.remove # "" THEN Err("fln__dgraph__full-mutate")
  ELSE IF h.readOnly THEN Err("fln__dgraph__readonly-mutation")
  ELSE NoError

\* faulty variant: the read-only test is missing
validateMutateNoReadOnly(h, params) ==
  IF ~params.hasParams THEN Err("fln__dgraph__missing-params")
  ELSE IF params.mutation = "" /\ params.remove = "" THEN Err("fln__dgraph__empty-mutate")
  ELSE IF params.mutation # "" /\ params.remove # "" THEN Err("fln__dgraph__full-mutate")
  ELSE IF h.isAborted THEN Err("fln__dgraph__already-aborted")
  ELSE IF h.isCommited THEN Err("fln__dgraph__already-commited")
  ELSE IF h.isClosed THEN Err("fln__dgraph__already-closed")
  ELSE NoError

validateMutate(h, params) ==
  IF ~params.hasParams THEN Err("fln__dgraph__missing-params")
  ELSE IF params.mutation = "" /\ params.remove = "" THEN Err("fln__dgraph__empty-mutate")
  ELSE IF params.mutation # "" /\ params.remove # "" THEN Err("fln__dgraph__full-mutate")
  ELSE IF h.isAborted THEN Err("fln__dgraph__already-aborted")
  ELSE IF h.isCommited THEN Err("fln__dgraph__already-commited")
  ELSE IF h.isClosed THEN Err("fln__dgraph__already-closed")
  ELSE IF h.readOnly THEN Err("fln__dgraph__readonly-mutation")
  ELSE NoError

mutateBody(params) ==
  IF params.mutation # "" THEN "{ set { " \o params.mutation \o " } }"
  ELSE "{ delete { " \o params.remove \o " } }"

\* faulty variant: the "?" is appended whether or not a parameter was set
mutatePathAlwaysMark(h, params) ==
  LET p1 == IF params.commitNow THEN set(<<>>, "commitNow", "true") ELSE <<>>
      p2 == IF h.startTs # 0 THEN set(p1, "startTs", ToString(h.startTs)) ELSE p1
      p3 == IF h.hash # "" THEN set(p2, "hash", h.hash) ELSE p2
  IN "mutate?" \o toString(p3)

mutatePath(h, params) ==
  LET p1 == IF params.commitNow THEN set(<<>>, "commitNow", "true") ELSE <<>>
      p2 == IF h.startTs # 0 THEN set(p1, "startTs", ToString(h.startTs)) ELSE p1
      p3 == IF h.hash # "" THEN set(p2, "hash", h.hash) ELSE p2
  IN IF toString(p3) # "" THEN "mutate?" \o toString(p3) ELSE "mutate"

\* faulty variant: with commitNow the response's extensions.txn is reconciled too
mutateReconcilesCommitNow(h, params, outs) ==
  LET v == validateMutate(h, params)
      h1 == [h EXCEPT !.didMutations = TRUE]
      a == afterApi(api(h1, mutatePath(h1, params), mutateBody(params), rdf, outs),
                    FALSE, "isCommited")
  IN IF v # NoError THEN Throws(h, v, outs)
     ELSE IF a.thrown = NoError /\ params.commitNow
     THEN [a EXCEPT !.h = [a.h EXCEPT !.isCommited = TRUE]]
     ELSE a

\* faulty variant: didMutations is set once the request has succeeded
mutateMarksLate(h, params, outs) ==
  LET v == validateMutate(h, params)
      a == api(h, mutatePath(h, params), mutateBody(params), rdf, outs)
  IN IF v # NoError THEN Throws(h, v, outs)
     ELSE IF a.thrown # NoError THEN a
     ELSE afterApi([a EXCEPT !.h = [a.h EXCEPT !.didMutations = TRUE]],
                   params.commitNow, "isCommited")

\* faulty variant: didMutations is set before the input and the state are validated
mutateMarksFirst(h, params, outs) ==
  LET v == validateMutate(h, params)
      h1 == [h EXCEPT !.didMutations = TRUE]
  IN IF v # NoError THEN Throws(h1, v, outs)
     ELSE afterApi(api(h1, mutatePath(h1, params), mutateBody(params), rdf, outs),
                   params.commitNow, "isCommited")

mutate(h, params, outs) ==
  LET v == validateMutate(h, params)
  IN IF v # NoError THEN Throws(h, v, outs)
     ELSE LET h1 == [h EXCEPT !.didMutations = TRUE]
          IN afterApi(api(h1, mutatePath(h1, params), mutateBody(params), rdf, outs),
                      params.commitNow, "isCommited")

-----------------------------------------------------------------------------
(* commit *)

\* faulty variant: the closed test is missing
validateCommitNoClosed(h) ==
  IF h.isAborted THEN Err("fln__dgraph__already-aborted")
  ELSE IF h.isCommited THEN Err("fln__dgraph__already-commited")
  ELSE NoError

\* faulty variant: committed is tested before aborted
validateCommitCommitedFirst(h) ==
  IF h.isCommited THEN Err("fln__dgraph__already-commited")
  ELSE IF h.isAborted THEN Err("fln__dgraph__already-aborted")
  ELSE IF h.isClosed THEN Err("fln__dgraph__already-closed")
  ELSE NoError

validateCommit(h) ==
  IF h.isAborted THEN Err("fln__dgraph__already-aborted")
  ELSE IF h.isCommited THEN Err("fln__dgraph__already-commited")
  ELSE IF h.isClosed THEN Err("fln__dgraph__already-closed")
  ELSE NoError

\* faulty variant: startTs is sent only when it is non-zero, as query does
commitPathSkipsZero(h) ==
  "commit?" \o toString(set(IF h.startTs # 0 THEN set(<<>>, "startTs", ToString(h.startTs))
                                             ELSE <<>>,
                             "hash", h.hash))

commitPath(h) ==
  "commit?" \o toString(set(set(<<>>, "startTs", ToString(h.startTs)), "hash", h.hash))

\* faulty variant: the body of the commit request holds the keys only
commitKeysOnly(h, outs) ==
  LET v == validateCommit(h)
  IN IF v # NoError THEN Throws(h, v, outs)
     ELSE LET h1 == [h EXCEPT !.isCommited = TRUE]
          IN IF h1.didMutations
             THEN api(h1, commitPath(h1), "[" \o stringifyItems(h1.keys) \o "]", json, outs)
             ELSE Returns(h1, Nothing, outs)

\* faulty variant: the commit request is sent whether or not the handle mutated
commitAlwaysSends(h, outs) ==
  LET v == validateCommit(h)
  IN IF v # NoError THEN Throws(h, v, outs)
     ELSE LET h1 == [h EXCEPT !.isCommited = TRUE]
          IN api(h1, commitPath(h1), stringify(h1.keys, h1.preds), json, outs)

commit(h, outs) ==
  LET v == validateCommit(h)
  IN IF v # NoError THEN Throws(h, v, outs)
     ELSE LET h1 == [h EXCEPT !.isCommited = TRUE]
          IN IF h1.didMutations
             THEN api(h1, commitPath(h1), stringify(h1.keys, h1.preds), json, outs)
             ELSE Returns(h1, Nothing, outs)

-----------------------------------------------------------------------------
(* constructor *)

\* given = FALSE: params is missing or not an object; a falsy apiKey or endpoint
\* is ""; a falsy timeout is 0
Options == {[readOnly |-> FALSE, bestEffort |-> FALSE, timeout |-> 0],
            [readOnly |-> TRUE, bestEffort |-> TRUE, timeout |-> 20]}
ConstructorParams == {[given |-> g, apiKey |-> a, endpoint |-> e, readOnly |-> o.readOnly,
                       bestEffort |-> o.bestEffort, timeout |-> o.timeout] :
                         g \in BOOLEAN, a \in ApiKeys, e \in Endpoints, o \in Options}

\* faulty variant: endpoint is tested before apiKey
validateConstructorEndpointFirst(params) ==
  IF ~params.given THEN Err("fln__dgraph__missing-params")
  ELSE IF params.endpoint = "" THEN Err("fln__dgraph__missing-endpoint")
  ELSE IF params.apiKey = "" THEN Err("fln__dgraph__missing-apiKey")
  ELSE NoError

validateConstructor(params) ==
  IF ~params.given THEN Err("fln__dgraph__missing-params")
  ELSE IF params.apiKey = "" THEN Err("fln__dgraph__missing-apiKey")
  ELSE IF params.endpoint = "" THEN Err("fln__dgraph__missing-endpoint")
  ELSE NoError

-----------------------------------------------------------------------------
(* The state machine *)

Call(op, args, r) ==
  [op |-> op, args |-> args, reqs |-> r.reqs, fetched |-> r.fetched,
   thrown |-> r.thrown, ret |-> r.ret]

NoCall == [op |-> "none", args |-> NoArgs, reqs |-> <<>>, fetched |-> <<>>,
           thrown |-> NoError, ret |-> Nothing]

\* the request abort sends: <endpoint>/commit?startTs=..&hash=..&abort=true
IsAbortRequest(req) ==
  \E ts \in {0} \cup StartTimestamps, hs \in Hashes :
    req.url = endpoint \o "/commit?startTs=" \o ToString(ts) \o "&hash=" \o hs \o "&abort=true"

Range(array) == {array[i] : i \in DOMAIN array}

\* keys / preds: every key and predicate that a response whose metadata a query
\* or mutate reconciled without error has reported; abortSent: an abort request
\* (it is the one request without a body) has been sent; reconciled: a response's
\* metadata has been reconciled without error; commits / aborts: how many commit
\* requests (the one request with the JSON content type) and abort requests have
\* been sent; committed: a commit() that sent its request, or a mutate with
\* commitNow, has returned its response
NoHistory == [keys |-> {}, preds |-> {}, abortSent |-> FALSE, reconciled |-> FALSE,
              commits |-> 0, aborts |-> 0, committed |-> FALSE]

\* how many requests of a call are commit requests, abort requests
CommitsIn(reqs) == Cardinality({i \in DOMAIN reqs : reqs[i].ContentType = json})
AbortsIn(reqs) ==
  Cardinality({i \in DOMAIN reqs : ~reqs[i].hasBody /\ IsAbortRequest(reqs[i])})

Observed(op, args, r) ==
  LET reconciled == /\ op \in {"query", "mutate"}
                    /\ ~args.closeWhenDone /\ ~args.commitNow
                    /\ r.thrown = NoError
                    /\ r.ret.body.hasTxn
      txn == r.ret.body.txn
  IN [keys |-> history.keys \cup (IF reconciled /\ txn.hasKeys THEN Range(txn.keys) ELSE {}),
      preds |-> history.preds \cup (IF reconciled /\ txn.hasPreds THEN Range(txn.preds) ELSE {}),
      abortSent |-> \/ history.abortSent
                    \/ \E i \in DOMAIN r.reqs : ~r.reqs[i].hasBody /\ IsAbortRequest(r.reqs[i]),
      reconciled |-> history.reconciled \/ reconciled,
      commits |-> history.commits + CommitsIn(r.reqs),
      aborts |-> history.aborts + AbortsIn(r.reqs),
      committed |-> \/ history.committed
                    \/ /\ r.thrown = NoError
                       /\ Len(r.reqs) = 1
                       /\ op = "commit" \/ (op = "mutate" /\ args.commitNow)]

\* how many calls may be suspended at the same time
MaxPending == 2

\* a slot that holds no suspended call; no call is suspended
Idle == [op |-> "none"]
NoPending == [s \in 1..MaxPending |-> Idle]

\* the fields as the class body initialises them
Init ==
  /\ phase = "new"
  /\ keys = <<>>
  /\ preds = <<>>
  /\ hash = ""
  /\ apiKey = ""
  /\ endpoint = ""
  /\ startTs = 0
  /\ timeout = DefaultTimeout
  /\ readOnly = FALSE
  /\ bestEffort = FALSE
  /\ isClosed = FALSE
  /\ isCommited = FALSE
  /\ isAborted = FALSE
  /\ didMutations = FALSE
  /\ lastCall = NoCall
  /\ history = NoHistory
  /\ pending = NoPending

\* the handle's fields become those of h
Becomes(h) ==
  /\ keys' = h.keys
  /\ preds' = h.preds
  /\ hash' = h.hash
  /\ apiKey' = h.apiKey
  /\ endpoint' = h.endpoint
  /\ startTs' = h.startTs
  /\ timeout' = h.timeout
  /\ readOnly' = h.readOnly
  /\ bestEffort' = h.bestEffort
  /\ isClosed' = h.isClosed
  /\ isCommited' = h.isCommited
  /\ isAborted' = h.isAborted
  /\ didMutations' = h.didMutations

Construct(params) ==
  /\ phase = "new"
  /\ LET v == validateConstructor(params)
     IN IF v # NoError
        THEN /\ phase' = "failed"
             /\ lastCall' = [NoCall EXCEPT !.op = "constructor", !.args = params,
                                           !.thrown = v]
             /\ Becomes(H)
             /\ UNCHANGED <<history, pending>>
        ELSE /\ phase' = "live"
             /\ lastCall' = [NoCall EXCEPT !.op = "constructor", !.args = params]
             /\ UNCHANGED <<history, pending>>
             /\ Becomes([H EXCEPT !.apiKey = params.apiKey,
                                  !.endpoint = params.endpoint,
                                  !.readOnly = IF params.readOnly THEN params.readOnly ELSE @,
                                  !.bestEffort = IF params.bestEffort THEN params.bestEffort ELSE @,
                                  !.timeout = IF params.timeout # 0 THEN params.timeout ELSE @])

Finish(op, args, r) ==
  /\ Becomes(r.h)
  /\ lastCall' = Call(op, args, r)
  /\ history' = Observed(op, args, r)
  /\ UNCHANGED <<phase, pending>>

Query(closeWhenDone, q, outs) ==
  /\ phase = "live"
  /\ Finish("query", [NoArgs EXCEPT !.closeWhenDone = closeWhenDone, !.query = q],
            query(H, closeWhenDone, q, outs))

Mutate(params, outs) ==
  /\ phase = "live"
  /\ Finish("mutate", [NoArgs EXCEPT !.hasParams = params.hasParams,
                                     !.mutation = params.mutation,
                                     !.remove = params.remove,
                                     !.commitNow = params.commitNow],
            mutate(H, params, outs))

Commit(outs) ==
  /\ phase = "live"
  /\ Finish("commit", NoArgs, commit(H, outs))

Abort(outs) ==
  /\ phase = "live"
  /\ Finish("abort", NoArgs, abort(H, outs))

MutateParams == [hasParams : {TRUE}, mutation : MutationTexts, remove : RemoveTexts,
                 commitNow : BOOLEAN]
                \cup {[hasParams |-> FALSE, mutation |-> "", remove |-> "",
                       commitNow |-> FALSE]}

\* A call meets the outcome of a fetch only if it makes that fetch. probe: the
\* call run with Ok for the outcomes not yet drawn
FirstOutcomes(probe, first) == IF probe.fetched = <<>> THEN {Ok} ELSE first
SecondOutcomes(probe) == IF Len(probe.fetched) < 2 THEN {Ok} ELSE AbortOutcomes

Next ==
  \/ \E params \in ConstructorParams : Construct(params)
  \/ \E closeWhenDone \in BOOLEAN, q \in QueryTexts :
       \E o1 \in FirstOutcomes(query(H, closeWhenDone, q, <<Ok, Ok>>), Outcomes) :
         \E o2 \in SecondOutcomes(query(H, closeWhenDone, q, <<o1, Ok>>)) :
           Query(closeWhenDone, q, <<o1, o2>>)
  \/ \E params \in MutateParams :
       \E o1 \in FirstOutcomes(mutate(H, params, <<Ok, Ok>>), Outcomes) :
         \E o2 \in SecondOutcomes(mutate(H, params, <<o1, Ok>>)) :
           Mutate(params, <<o1, o2>>)
  \/ \E o1 \in FirstOutcomes(commit(H, <<Ok, Ok>>), Outcomes) :
       \E o2 \in SecondOutcomes(commit(H, <<o1, Ok>>)) :
         Commit(<<o1, o2>>)
  \/ \E o1 \in FirstOutcomes(abort(H, <<Ok, Ok>>), AbortOutcomes) :
       \E o2 \in SecondOutcomes(abort(H, <<o1, Ok>>)) :
         Abort(<<o1, o2>>)

Spec == Init /\ [][Next]_vars

-----------------------------------------------------------------------------
(* Interleaved calls *)

(***************************************************************************)
(* The methods are async functions: a call runs without interruption up to *)
(* the fetch of #api (line 249), is suspended there, and runs on when the  *)
(* fetch has settled.  Between settling and the method's return no field   *)
(* is read or written except in the statements below, so the awaits of     *)
(* rFetch.json() (252) and of #api's result (81, 131, 188, 222, 254) are   *)
(* taken together with the fetch they follow.  A call is therefore two or  *)
(* three steps: it begins (validation, flag, request sent), its own        *)
(* request returns, and, when that failed and abort() sent the abort       *)
(* request, the abort request returns.                                     *)
(***************************************************************************)

NoRequest == [method |-> "POST", url |-> "", XAuthToken |-> "", hasContentType |-> FALSE,
              ContentType |-> "", hasBody |-> FALSE, body |-> ""]

\* what a step of a call did: h: the handle afterwards; sends / req: the request
\* it sent; done: the call has returned or thrown; thrown / ret: what the caller
\* gets; e: the error #api holds while its catch block awaits abort()
Done(h, thrown, ret) ==
  [h |-> h, sends |-> FALSE, req |-> NoRequest, done |-> TRUE, thrown |-> thrown,
   ret |-> ret, e |-> NoError]
Sends(h, req, e) ==
  [h |-> h, sends |-> TRUE, req |-> req, done |-> FALSE, thrown |-> NoError,
   ret |-> Nothing, e |-> e]

\* faulty variant: the aborted test is missing, every abort() sends the request
abortBeginRepeats(h, e) ==
  LET h1 == [h EXCEPT !.isAborted = TRUE]
  IN IF h1.didMutations
     THEN Sends(h1, Request(h1, abortPath(h1), "", ""), e)
     ELSE Done(h1, e, Nothing)

\* abort() up to its await: test and set of the flag, then the request.  e: the
\* error that the catch block of #api rethrows afterwards (NoError: abort() was
\* called by the caller)
abortBegin(h, e) ==
  IF ~h.isAborted
  THEN LET h1 == [h EXCEPT !.isAborted = TRUE]
       IN IF h1.didMutations
          THEN Sends(h1, Request(h1, abortPath(h1), "", ""), e)
          ELSE Done(h1, e, Nothing)
  ELSE Done(h, e, Nothing)

queryBegin(h, closeWhenDone, q) ==
  LET v == validateQuery(h)
  IN IF v # NoError THEN Done(h, v, Nothing)
     ELSE Sends(h, Request(h, queryPath(h), q, dql), NoError)

mutateBegin(h, params) ==
  LET v == validateMutate(h, params)
  IN IF v # NoError THEN Done(h, v, Nothing)
     ELSE LET h1 == [h EXCEPT !.didMutations = TRUE]
          IN Sends(h1, Request(h1, mutatePath(h1, params), mutateBody(params), rdf), NoError)

\* faulty variant: the committed flag is not set before the request is awaited
commitBeginMarksLate(h) ==
  LET v == validateCommit(h)
  IN IF v # NoError THEN Done(h, v, Nothing)
     ELSE IF h.didMutations
          THEN Sends(h, Request(h, commitPath(h), stringify(h.keys, h.preds), json), NoError)
          ELSE Done([h EXCEPT !.isCommited = TRUE], NoError, Nothing)

commitBegin(h) ==
  LET v == validateCommit(h)
  IN IF v # NoError THEN Done(h, v, Nothing)
     ELSE LET h1 == [h EXCEPT !.isCommited = TRUE]
          IN IF h1.didMutations
             THEN Sends(h1, Request(h1, commitPath(h1), stringify(h1.keys, h1.preds), json),
                        NoError)
             ELSE Done(h1, NoError, Nothing)

\* the fetch of the call's own request has settled with rFetch: #api from line
\* 251 on, then the statements of the method after its await
ownResume(h, call, rFetch) ==
  IF apiThrows(rFetch) THEN abortBegin(h, Thrown(rFetch))
  ELSE LET a == [h |-> h, reqs |-> <<>>, fetched |-> <<rFetch>>, thrown |-> NoError,
                 ret |-> Parsed(rFetch.body), rest |-> <<>>]
           b == IF call.op = "query" THEN afterApi(a, call.args.closeWhenDone, "isClosed")
                ELSE IF call.op = "mutate" THEN afterApi(a, call.args.commitNow, "isCommited")
                ELSE a
       IN Done(b.h, b.thrown, b.ret)

\* the fetch of the abort request that the catch block of #api awaits has
\* settled: when it failed, abort() throws that failure into the catch block;
\* otherwise the catch block rethrows e
abortResume(h, call, rFetch) ==
  IF apiThrows(rFetch) THEN abortBegin(h, Thrown(rFetch))
  ELSE Done(h, call.e, Nothing)

\* the values the environment supplies while calls are interleaved
InterleavedTxns == {t \in Txns : \/ t.hash = "h1" /\ t.start_ts = 9 /\ t.keys = KeyLists[1]
                                 \/ t.hash = "h2" /\ t.start_ts = 18 /\ ~t.hasKeys}
InterleavedOutcomes ==
  {o \in Outcomes : \/ o.kind = "reject"
                    \/ o.status = 400
                    \/ o.status = 200 /\ o.body.valid
                         /\ (o.body.hasTxn => o.body.txn \in InterleavedTxns)}
InterleavedMutateParams ==
  {p \in MutateParams : p.hasParams /\ p.mutation # "" /\ p.remove = ""}

\* a suspended call: stage = "own": its own request is in flight, "abort": the
\* abort request sent by the catch block of #api is; sent: the requests it has
\* sent so far
Suspended(op, args, stage, e, sent) ==
  [op |-> op, args |-> args, stage |-> stage, e |-> e, sent |-> sent]

Free == {s \in 1..MaxPending : pending[s] = Idle}
Busy == {s \in 1..MaxPending : pending[s] # Idle}

\* what the step of a call leaves in lastCall: the request sent and the outcome
\* met in this step, and what the caller got when the call is done
StepCall(op, args, step, r, fetched, sent) ==
  [op |-> op, args |-> args, reqs |-> IF r.sends THEN <<r.req>> ELSE <<>>,
   fetched |-> fetched, thrown |-> r.thrown, ret |-> r.ret,
   step |-> step, done |-> r.done, sent |-> sent]

Noted(op, args, step, r) ==
  LET reconciled == /\ step = "own"
                    /\ op \in {"query", "mutate"}
                    /\ ~args.closeWhenDone /\ ~args.commitNow
                    /\ r.done /\ r.thrown = NoError
                    /\ r.ret.body.hasTxn
      txn == r.ret.body.txn
      reqs == IF r.sends THEN <<r.req>> ELSE <<>>
  IN [keys |-> history.keys \cup (IF reconciled /\ txn.hasKeys THEN Range(txn.keys) ELSE {}),
      preds |-> history.preds \cup (IF reconciled /\ txn.hasPreds THEN Range(txn.preds) ELSE {}),
      abortSent |-> history.abortSent \/ AbortsIn(reqs) > 0,
      reconciled |-> history.reconciled \/ reconciled,
      commits |-> history.commits + CommitsIn(reqs),
      aborts |-> history.aborts + AbortsIn(reqs),
      committed |-> \/ history.committed
                    \/ /\ step = "own" /\ r.done /\ r.thrown = NoError
                       /\ op = "commit" \/ (op = "mutate" /\ args.commitNow)]

\* a call begins: it runs up to its first await, or to its end
Begin(op, args, r) ==
  /\ phase = "live"
  /\ r.done \/ Free # {}
  /\ LET s == CHOOSE f \in Free : \A g \in Free : f <= g
         sent == IF r.sends THEN 1 ELSE 0
     IN /\ Becomes(r.h)
        /\ lastCall' = StepCall(op, args, "begin", r, <<>>, sent)
        /\ history' = Noted(op, args, "begin", r)
        /\ pending' = IF r.done THEN pending
                      ELSE [pending EXCEPT ![s] = Suspended(op, args, "own", r.e, sent)]
        /\ UNCHANGED phase

BeginQuery(closeWhenDone, q) ==
  Begin("query", [NoArgs EXCEPT !.closeWhenDone = closeWhenDone, !.query = q],
        queryBegin(H, closeWhenDone, q))

BeginMutate(params) ==
  Begin("mutate", [NoArgs EXCEPT !.hasParams = params.hasParams,
                                 !.mutation = params.mutation,
                                 !.remove = params.remove,
                                 !.commitNow = params.commitNow],
        mutateBegin(H, params))

BeginCommit == Begin("commit", NoArgs, commitBegin(H))

BeginAbort == Begin("abort", NoArgs, abortBegin(H, NoError))

\* the request that the call in slot s awaits settles with rFetch
Resume(s, rFetch) ==
  /\ phase = "live"
  /\ s \in Busy
  /\ LET call == pending[s]
         r == IF call.stage = "own" THEN ownResume(H, call, rFetch)
              ELSE abortResume(H, call, rFetch)
         sent == call.sent + (IF r.sends THEN 1 ELSE 0)
     IN /\ Becomes(r.h)
        /\ lastCall' = StepCall(call.op, call.args, call.stage, r, <<rFetch>>, sent)
        /\ history' = Noted(call.op, call.args, call.stage, r)
        /\ pending' = [pending EXCEPT ![s] = IF r.done THEN Idle
                                             ELSE Suspended(call.op, call.args, "abort",
                                                            r.e, sent)]
        /\ UNCHANGED phase

Settles(s) == \E rFetch \in InterleavedOutcomes : Resume(s, rFetch)

NextI ==
  \/ \E params \in ConstructorParams : Construct(params)
  \/ \E closeWhenDone \in BOOLEAN, q \in QueryTexts : BeginQuery(closeWhenDone, q)
  \/ \E params \in InterleavedMutateParams : BeginMutate(params)
  \/ BeginCommit
  \/ BeginAbort
  \/ \E s \in 1..MaxPending : Settles(s)

SpecI == Init /\ [][NextI]_vars

\* calls made one after another: a call begins when none is suspended
NextS ==
  \/ \E params \in ConstructorParams : Construct(params)
  \/ Busy = {} /\ \E closeWhenDone \in BOOLEAN, q \in QueryTexts : BeginQuery(closeWhenDone, q)
  \/ Busy = {} /\ \E params \in InterleavedMutateParams : BeginMutate(params)
  \/ Busy = {} /\ BeginCommit
  \/ Busy = {} /\ BeginAbort
  \/ Settles(1)

SpecS == Init /\ [][NextS]_vars

\* every fetch eventually settles
FairSpecS == SpecS /\ WF_vars(Settles(1))

-----------------------------------------------------------------------------
(* Vocabulary of the properties *)

\* a response whose status is outside [200, 300)
OutsideRange(o) == o.kind = "resp" /\ (o.status < 200 \/ o.status >= 300)

\* a fetch that failed at the transport level: rejected, a status outside
\* [200, 300), or a body that does not parse
TransportFailure(o) == o.kind = "reject" \/ OutsideRange(o) \/ ~o.body.valid

\* a mutate call given exactly one of mutation and remove
ValidMutate(call) ==
  /\ call.op = "mutate"
  /\ call.args.hasParams
  /\ (call.args.mutation # "") # (call.args.remove # "")

\* a call of query, of mutate with valid input, or of commit
GuardedCall(call) == call.op \in {"query", "commit"} \/ ValidMutate(call)

\* the call made a request of its own (its validation passed)
Requested(call) == call.op \in {"query", "mutate", "commit"} /\ Len(call.fetched) >= 1

-----------------------------------------------------------------------------
(* C1 *)

\* C1 (as claimed): in every reachable state at most one of the flags closed,
\* committed, aborted is true.
C1_AtMostOneTerminalFlag ==
  /\ ~(isClosed /\ isCommited)
  /\ ~(isClosed /\ isAborted)
  /\ ~(isCommited /\ isAborted)

\* C1 (amended): closed and committed are never both true; aborted can be true
\* together with either of them.
C1_ClosedCommittedExclusive == ~(isClosed /\ isCommited)

\* a commit whose request failed: the handle is committed and aborted
C1_Witness ==
  /\ lastCall.op = "commit"
  /\ Len(lastCall.fetched) >= 1
  /\ isCommited /\ isAborted

-----------------------------------------------------------------------------
(* C2 *)

\* C2: when the request of a query, mutate or commit fails and the abort request
\* sent because of it fails too, the caller gets the failure of the first request.
C2_OriginalErrorDelivered ==
  (/\ Requested(lastCall)
   /\ Len(lastCall.fetched) = 2
   /\ TransportFailure(lastCall.fetched[1])
   /\ TransportFailure(lastCall.fetched[2]))
  => lastCall.thrown = Thrown(lastCall.fetched[1])

-----------------------------------------------------------------------------
(* C3 *)

\* C3: a response whose status is outside [200, 300), 199 like 300, makes the call
\* fail: the handle is aborted and an error is thrown, which is that response
\* with its status (when the call sent no second request).
C3_OutsideRangeFails ==
  (/\ lastCall.op \in {"query", "mutate", "commit", "abort"}
   /\ Len(lastCall.fetched) >= 1
   /\ OutsideRange(lastCall.fetched[1]))
  => /\ isAborted
     /\ lastCall.thrown # NoError
     /\ Len(lastCall.fetched) = 1
          => /\ lastCall.thrown.kind = "response"
             /\ lastCall.thrown.status = lastCall.fetched[1].status

-----------------------------------------------------------------------------
(* C4 *)

\* C4: when the request of a query, mutate or commit fails at the transport
\* level, the call throws, the handle is aborted, and if didMutate is true exactly
\* one abort request follows the failing request.
C4_AbortBeforeError ==
  (/\ Requested(lastCall)
   /\ TransportFailure(lastCall.fetched[1]))
  => /\ isAborted
     /\ lastCall.thrown # NoError
     /\ didMutations
          => /\ Len(lastCall.reqs) = 2
             /\ ~IsAbortRequest(lastCall.reqs[1])
             /\ IsAbortRequest(lastCall.reqs[2])

-----------------------------------------------------------------------------
(* C5 *)

\* C5: on a handle that abort() has marked aborted, every call of query, of
\* mutate with exactly one of mutation / remove, and of commit fails with the
\* already-aborted error.
C5_AbortedRejects ==
  [][(phase = "live" /\ isAborted /\ GuardedCall(lastCall'))
       => lastCall'.thrown = Err("fln__dgraph__already-aborted")]_vars

\* a commit refused on a handle that is aborted and committed
C5_Witness ==
  /\ isAborted /\ isCommited
  /\ lastCall.op = "commit"
  /\ lastCall.thrown = Err("fln__dgraph__already-aborted")

-----------------------------------------------------------------------------
(* C6 *)

\* the call was not turned away by a state error: the handle was Active
Accepted(call) ==
  call.thrown.id \notin {"fln__dgraph__already-aborted", "fln__dgraph__already-commited",
                         "fln__dgraph__already-closed"}

\* C6 (as claimed): after commit() was called on an Active handle, the next call
\* of query, mutate or commit fails with the already-committed error.
C6_CommittedRejects ==
  [][(/\ phase = "live"
      /\ lastCall.op = "commit" /\ Accepted(lastCall)
      /\ GuardedCall(lastCall'))
       => lastCall'.thrown = Err("fln__dgraph__already-commited")]_vars

\* C6 (amended): on a handle that is committed and not aborted (neither by abort()
\* nor by the failure of the commit request), every call of query, of mutate with
\* exactly one of mutation / remove, and of commit fails with already-committed.
C6_CommittedNotAbortedRejects ==
  [][(phase = "live" /\ isCommited /\ ~isAborted /\ GuardedCall(lastCall'))
       => lastCall'.thrown = Err("fln__dgraph__already-commited")]_vars

\* a query refused on a handle committed by commit() (it never mutated)
C6_Witness ==
  /\ isCommited /\ ~isAborted /\ ~didMutations
  /\ lastCall.op = "query"
  /\ lastCall.thrown = Err("fln__dgraph__already-commited")

-----------------------------------------------------------------------------
(* C7 *)

\* C7 (as claimed): on a handle closed by a successful query(true, ..), every call
\* of query, of mutate (valid input, handle not read-only) and of commit fails
\* with the already-closed error.
C7_ClosedRejects ==
  [][(/\ phase = "live" /\ isClosed
      /\ GuardedCall(lastCall')
      /\ ValidMutate(lastCall') => ~readOnly)
       => lastCall'.thrown = Err("fln__dgraph__already-closed")]_vars

\* C7 (amended): the same, as long as abort() has not been called on the closed
\* handle.
C7_ClosedNotAbortedRejects ==
  [][(/\ phase = "live" /\ isClosed /\ ~isAborted
      /\ GuardedCall(lastCall')
      /\ ValidMutate(lastCall') => ~readOnly)
       => lastCall'.thrown = Err("fln__dgraph__already-closed")]_vars

\* a mutate refused on a closed handle
C7_Witness ==
  /\ isClosed /\ ~isAborted /\ ~readOnly
  /\ ValidMutate(lastCall)
  /\ lastCall.thrown = Err("fln__dgraph__already-closed")

-----------------------------------------------------------------------------
(* C8 *)

\* C8: once closed, committed or aborted is true, a call sends no request other
\* than the abort request.
C8_TerminalSendsOnlyAbort ==
  [][(phase = "live" /\ (isClosed \/ isCommited \/ isAborted))
       => \A i \in 1..Len(lastCall'.reqs) : IsAbortRequest(lastCall'.reqs[i])]_vars

\* abort() on a committed handle that mutated: the one request a terminal handle sends
C8_Witness ==
  /\ isCommited /\ isAborted
  /\ lastCall.op = "abort"
  /\ Len(lastCall.reqs) = 1
  /\ IsAbortRequest(lastCall.reqs[1])

-----------------------------------------------------------------------------
(* C9 *)

\* the call reconciled the metadata of its response: a query without
\* closeWhenDone or a mutate without commitNow whose request succeeded with a
\* body that carries extensions.txn
Reconciled(call) ==
  /\ call.op \in {"query", "mutate"}
  /\ ~call.args.closeWhenDone /\ ~call.args.commitNow
  /\ Len(call.fetched) = 1
  /\ call.fetched[1].kind = "resp" /\ call.fetched[1].status < 300
  /\ call.fetched[1].body.valid /\ call.fetched[1].body.hasTxn

\* C9: startTs changes at most once: while it is 0 a reconciled response sets it
\* to its start_ts, nothing else changes it, and once non-zero it never changes.
C9_StartTsSetOnce ==
  [][/\ startTs # 0 => startTs' = startTs
     /\ startTs' # startTs => Reconciled(lastCall')
     /\ (phase = "live" /\ startTs = 0 /\ Reconciled(lastCall'))
          => startTs' = lastCall'.fetched[1].body.txn.start_ts]_vars

\* a second response reconciled on a handle that had adopted its startTs before
C9_Witness ==
  /\ startTs # 0
  /\ Reconciled(lastCall) /\ lastCall.op = "mutate"
  /\ lastCall.thrown = NoError
  /\ lastCall.reqs[1].url = endpoint \o "/mutate?startTs=" \o ToString(startTs) \o "&hash=h1"

-----------------------------------------------------------------------------
(* C10 *)

\* C10: when the handle holds a non-zero startTs and a reconciled response reports
\* another start_ts, the call fails with the start-ts-mismatch error that carries
\* the handle's value and the response's value, and startTs is unchanged.
C10_MismatchFails ==
  [][(/\ phase = "live" /\ startTs # 0
      /\ Reconciled(lastCall')
      /\ lastCall'.fetched[1].body.txn.start_ts # startTs)
       => /\ lastCall'.thrown = MismatchErr(startTs, lastCall'.fetched[1].body.txn.start_ts)
          /\ startTs' = startTs]_vars

\* a query that failed with the mismatch error
C10_Witness ==
  /\ lastCall.op = "query"
  /\ Reconciled(lastCall)
  /\ lastCall.thrown.id = "fln__dgraph__start-ts-mismatch"
  /\ lastCall.thrown.transactionStartTs = startTs
  /\ lastCall.thrown.responseStartTs # startTs

-----------------------------------------------------------------------------
(* C11 *)

\* the errors of #validateQuery, #validateMutate and #validateCommit
StateErrors == {"fln__dgraph__already-aborted", "fln__dgraph__already-commited",
                "fln__dgraph__already-closed"}
InputErrors == {"fln__dgraph__missing-params", "fln__dgraph__empty-mutate",
                "fln__dgraph__full-mutate", "fln__dgraph__readonly-mutation"}

\* C11: a query, mutate or commit call that is rejected with a state error or an
\* input validation error sends no request (so no abort request either) and leaves
\* every field of the handle as it was: startTs, hash, keys, preds, didMutations,
\* isClosed, isCommited, isAborted.
C11_RejectedCallChangesNothing ==
  [][(/\ phase = "live"
      /\ lastCall'.op \in {"query", "mutate", "commit"}
      /\ lastCall'.thrown.id \in StateErrors \cup InputErrors)
       => /\ lastCall'.reqs = <<>>
          /\ lastCall'.fetched = <<>>
          /\ UNCHANGED <<startTs, hash, keys, preds, didMutations,
                         isClosed, isCommited, isAborted>>
          /\ UNCHANGED <<apiKey, endpoint, timeout, readOnly, bestEffort>>]_vars

\* a mutate rejected as a read-only violation on a handle that never mutated
C11_Witness ==
  /\ lastCall.op = "mutate"
  /\ lastCall.thrown = Err("fln__dgraph__readonly-mutation")
  /\ lastCall.reqs = <<>>
  /\ ~didMutations /\ ~isAborted

-----------------------------------------------------------------------------
(* C12 *)

\* the abort requests among the requests a call sent: no body, the abort URL
AbortRequests(call) ==
  {i \in DOMAIN call.reqs : ~call.reqs[i].hasBody /\ IsAbortRequest(call.reqs[i])}

\* C12: abort() never fails with a state or input error; on a handle that is
\* already aborted it sends no request, changes no field and returns nothing; and
\* over the whole life of a handle at most one abort request is sent (a call
\* sends at most one, and none once one has been sent).
C12_AbortIdempotent ==
  [][/\ (phase = "live" /\ lastCall'.op = "abort") => lastCall'.thrown.kind # "error"
     /\ (phase = "live" /\ isAborted /\ lastCall'.op = "abort")
          => /\ lastCall'.reqs = <<>>
             /\ lastCall'.thrown = NoError
             /\ lastCall'.ret = Nothing
             /\ UNCHANGED <<startTs, hash, keys, preds, didMutations,
                            isClosed, isCommited, isAborted>>
     /\ Cardinality(AbortRequests(lastCall'))
          + (IF history.abortSent THEN 1 ELSE 0) <= 1]_vars

\* abort() called again on a handle whose abort request has been sent
C12_Witness ==
  /\ lastCall.op = "abort"
  /\ lastCall.reqs = <<>>
  /\ lastCall.ret = Nothing
  /\ history.abortSent
  /\ isAborted /\ didMutations

-----------------------------------------------------------------------------
(* C13 *)

\* the handle is Active: neither closed nor committed nor aborted
Active == ~isClosed /\ ~isCommited /\ ~isAborted

\* C13: on an Active handle whose didMutations is false (no mutate call passed its
\* validation, however many queries ran), commit() and abort() send no request,
\* return nothing, and leave the handle committed respectively aborted.
C13_NoMutationNoRequest ==
  [][(/\ phase = "live" /\ Active /\ ~didMutations
      /\ lastCall'.op \in {"commit", "abort"})
       => /\ lastCall'.reqs = <<>>
          /\ lastCall'.fetched = <<>>
          /\ lastCall'.thrown = NoError
          /\ lastCall'.ret = Nothing
          /\ lastCall'.op = "commit" => (isCommited' /\ ~isAborted' /\ ~isClosed')
          /\ lastCall'.op = "abort" => (isAborted' /\ ~isCommited' /\ ~isClosed')]_vars

\* commit() without a request on a handle that queried (it holds a startTs) and
\* never mutated
C13_Witness ==
  /\ lastCall.op = "commit"
  /\ lastCall.reqs = <<>>
  /\ lastCall.thrown = NoError
  /\ startTs # 0
  /\ ~didMutations
  /\ isCommited /\ ~isAborted

-----------------------------------------------------------------------------
(* C14 *)

\* an array that lists exactly the elements of the set, each once
Lists(array, elements) ==
  /\ Range(array) = elements
  /\ Len(array) = Cardinality(elements)

-----------------------------------------------------------------------------
(* C15 *)

\* C15: after every step #keys lists exactly the keys, and #preds exactly the
\* predicates, that the responses reconciled so far have reported, each once;
\* and no step removes an element from either.
C15_KeysAccumulate ==
  [][/\ Lists(keys, history.keys)'
     /\ Lists(preds, history.preds)'
     /\ Range(keys) \subseteq Range(keys')
     /\ Range(preds) \subseteq Range(preds')]_vars

\* a second mutation response whose keys overlap those of the first
C15_Witness ==
  /\ lastCall.op = "mutate"
  /\ Reconciled(lastCall)
  /\ lastCall.thrown = NoError
  /\ lastCall.fetched[1].body.txn.keys = <<"def", "ghi">>
  /\ keys = <<"abc", "def", "ghi">>
  /\ preds = <<"name", "age">>

-----------------------------------------------------------------------------
(* C16 *)

\* C16: didMutations is set before the request of a mutate is sent, so when that
\* request fails at the transport level, the first mutate of a fresh handle
\* included, didMutations is true and the abort that follows sends the rollback
\* request <endpoint>/commit?startTs=..&hash=..&abort=true.
C16_FailedMutateRollsBack ==
  (/\ lastCall.op = "mutate"
   /\ Len(lastCall.fetched) >= 1
   /\ TransportFailure(lastCall.fetched[1]))
  => /\ didMutations
     /\ isAborted
     /\ Len(lastCall.reqs) = 2
     /\ ~lastCall.reqs[2].hasBody
     /\ IsAbortRequest(lastCall.reqs[2])

-----------------------------------------------------------------------------
(* C17 *)

\* the call passed the validation of its method
PassedValidation(call) == call.thrown.id \notin StateErrors \cup InputErrors

\* C17 (as claimed): didMutations turns true only in a mutate call that completes
\* successfully (so it is false as long as no mutate has succeeded), a successful
\* mutate leaves it true, and once true it stays true.
C17_TrueOnSuccessfulMutate ==
  [][/\ didMutations => didMutations'
     /\ (~didMutations /\ didMutations')
          => (lastCall'.op = "mutate" /\ lastCall'.thrown = NoError)
     /\ (phase = "live" /\ lastCall'.op = "mutate" /\ lastCall'.thrown = NoError)
          => didMutations']_vars

\* C17 (amended): didMutations turns true only in a mutate call that passes its
\* validation (so it is false as long as none has), every mutate call that passes
\* its validation leaves it true, whether its request succeeds or fails, and once
\* true it stays true.
C17_TrueOnValidatedMutate ==
  [][/\ didMutations => didMutations'
     /\ (~didMutations /\ didMutations')
          => (lastCall'.op = "mutate" /\ PassedValidation(lastCall'))
     /\ (phase = "live" /\ lastCall'.op = "mutate" /\ PassedValidation(lastCall'))
          => didMutations']_vars

\* the first mutate of a handle, whose request was refused with status 400
C17_Witness ==
  /\ lastCall.op = "mutate"
  /\ Len(lastCall.reqs) >= 1
  /\ lastCall.reqs[1].url = endpoint \o "/mutate"
  /\ lastCall.fetched[1].status = 400
  /\ lastCall.thrown # NoError
  /\ didMutations
  /\ keys = <<>> /\ startTs = 0

-----------------------------------------------------------------------------
(* C18 *)

\* "&startTs=<startTs>" and "&hash=<hash>", each only when the handle holds one
StartTsAndHash ==
  (IF startTs # 0 THEN "&startTs=" \o ToString(startTs) ELSE "")
  \o (IF hash # "" THEN "&hash=" \o hash ELSE "")

\* a mutate call with commitNow that returned its response
CommitNowDone(call) ==
  /\ call.op = "mutate"
  /\ call.args.commitNow
  /\ call.thrown = NoError

\* C18: a successful mutate with commitNow sends its one request to
\* <endpoint>/mutate?commitNow=true[&startTs=..][&hash=..], commitNow first; it
\* leaves the handle committed and startTs, hash, keys and preds as they were,
\* whatever metadata the response carries; and a commit() that follows fails
\* with already-committed without sending a request.
C18_CommitNowCommits ==
  [][/\ (phase = "live" /\ CommitNowDone(lastCall'))
          => /\ Len(lastCall'.reqs) = 1
             /\ lastCall'.reqs[1].url = endpoint \o "/mutate?commitNow=true" \o StartTsAndHash
             /\ isCommited' /\ ~isAborted' /\ ~isClosed'
             /\ UNCHANGED <<startTs, hash, keys, preds>>
     /\ (CommitNowDone(lastCall) /\ lastCall'.op = "commit")
          => /\ lastCall'.thrown = Err("fln__dgraph__already-commited")
             /\ lastCall'.reqs = <<>>]_vars

\* a mutate with commitNow whose response carries a hash and keys that the handle
\* does not take over
C18_Witness ==
  /\ CommitNowDone(lastCall)
  /\ Len(lastCall.reqs) = 1
  /\ lastCall.reqs[1].url = endpoint \o "/mutate?commitNow=true&startTs=9&hash=h1"
  /\ lastCall.fetched[1].body.hasTxn
  /\ lastCall.fetched[1].body.txn.hash = "h2"
  /\ lastCall.fetched[1].body.txn.start_ts = 18
  /\ lastCall.fetched[1].body.txn.hasKeys
  /\ isCommited
  /\ startTs = 9 /\ hash = "h1" /\ keys = <<>>

-----------------------------------------------------------------------------
(* C19 *)

\* a query call that returned its response
QueryDone(call) == call.op = "query" /\ call.thrown = NoError

\* a query call whose request succeeded: it returned its response, or failed
\* reconciling it
QueryAnswered(call) ==
  /\ call.op = "query"
  /\ Len(call.fetched) = 1
  /\ call.thrown.kind \in {"none", "error"}

\* C19: a successful query with closeWhenDone leaves the handle closed and
\* startTs, hash, keys and preds as they were, whatever metadata the response
\* carries.  A successful query without closeWhenDone leaves the handle Active
\* and, when the response carries metadata, reconciles it: a non-empty hash is
\* taken over, start_ts is adopted while startTs is 0, the keys and the predicates
\* are merged; without metadata those four fields are unchanged.
C19_QueryClosesOrReconciles ==
  [][/\ (phase = "live" /\ QueryDone(lastCall') /\ lastCall'.args.closeWhenDone)
          => /\ isClosed' /\ ~isCommited' /\ ~isAborted'
             /\ UNCHANGED <<startTs, hash, keys, preds>>
     /\ (phase = "live" /\ QueryAnswered(lastCall') /\ ~lastCall'.args.closeWhenDone)
          => (~isClosed' /\ ~isCommited' /\ ~isAborted')
     /\ (phase = "live" /\ QueryDone(lastCall') /\ ~lastCall'.args.closeWhenDone)
          => LET body == lastCall'.fetched[1].body
                 txn == body.txn
             IN IF body.hasTxn
                THEN /\ hash' = (IF txn.hash # "" THEN txn.hash ELSE hash)
                     /\ startTs' = (IF startTs = 0 THEN txn.start_ts ELSE startTs)
                     /\ Range(keys') = Range(keys) \cup Range(txn.keys)
                     /\ Range(preds') = Range(preds) \cup Range(txn.preds)
                ELSE UNCHANGED <<startTs, hash, keys, preds>>]_vars

\* a query with closeWhenDone whose response carries metadata that the handle
\* does not take over
C19_Witness ==
  /\ QueryDone(lastCall)
  /\ lastCall.args.closeWhenDone
  /\ lastCall.fetched[1].body.hasTxn
  /\ lastCall.fetched[1].body.txn.hash = "h2"
  /\ lastCall.fetched[1].body.txn.start_ts = 18
  /\ lastCall.fetched[1].body.txn.hasKeys
  /\ isClosed
  /\ startTs = 9 /\ hash = "h1" /\ keys = <<>>

-----------------------------------------------------------------------------
(* C20 *)

\* C20: mutate reports the first of its preconditions that fails, in the order
\* missing params object, empty mutation (neither mutation nor remove),
\* conflicting mutation (both), already aborted, already committed, already
\* closed, read-only violation; when none fails the call passes its validation.
C20_MutateValidationOrder ==
  [][(phase = "live" /\ lastCall'.op = "mutate")
       => LET args == lastCall'.args
              id == lastCall'.thrown.id
              neither == args.mutation = "" /\ args.remove = ""
              both == args.mutation # "" /\ args.remove # ""
          IN /\ ~args.hasParams => id = "fln__dgraph__missing-params"
             /\ (args.hasParams /\ neither) => id = "fln__dgraph__empty-mutate"
             /\ (args.hasParams /\ both) => id = "fln__dgraph__full-mutate"
             /\ (ValidMutate(lastCall') /\ isAborted)
                  => id = "fln__dgraph__already-aborted"
             /\ (ValidMutate(lastCall') /\ ~isAborted /\ isCommited)
                  => id = "fln__dgraph__already-commited"
             /\ (ValidMutate(lastCall') /\ ~isAborted /\ ~isCommited /\ isClosed)
                  => id = "fln__dgraph__already-closed"
             /\ (ValidMutate(lastCall') /\ Active /\ readOnly)
                  => id = "fln__dgraph__readonly-mutation"
             /\ (ValidMutate(lastCall') /\ Active /\ ~readOnly)
                  => PassedValidation(lastCall')]_vars

\* a mutate with neither mutation nor remove on an aborted, read-only handle:
\* the empty-mutation error comes first
C20_Witness ==
  /\ lastCall.op = "mutate"
  /\ lastCall.args.hasParams
  /\ lastCall.args.mutation = "" /\ lastCall.args.remove = ""
  /\ isAborted /\ readOnly
  /\ lastCall.thrown = Err("fln__dgraph__empty-mutate")

-----------------------------------------------------------------------------
(* C21 *)

\* C21: query and commit report the first of aborted, committed, closed that
\* holds: an aborted handle gives already-aborted whatever else is set, a handle
\* committed and not aborted gives already-committed, a handle closed and neither
\* aborted nor committed gives already-closed, and an Active handle passes.
C21_StateOrder ==
  [][(phase = "live" /\ lastCall'.op \in {"query", "commit"})
       => LET id == lastCall'.thrown.id
          IN /\ isAborted => id = "fln__dgraph__already-aborted"
             /\ (~isAborted /\ isCommited) => id = "fln__dgraph__already-commited"
             /\ (~isAborted /\ ~isCommited /\ isClosed) => id = "fln__dgraph__already-closed"
             /\ Active => PassedValidation(lastCall')]_vars

\* a query refused with already-aborted on a handle that is closed and aborted
C21_Witness ==
  /\ lastCall.op = "query"
  /\ isClosed /\ isAborted
  /\ lastCall.thrown = Err("fln__dgraph__already-aborted")

-----------------------------------------------------------------------------
(* C22 *)

\* C22: on a handle constructed with readOnly = true, a mutate call with exactly
\* one of mutation / remove made while the handle is Active fails with the
\* read-only-violation error and sends no request; and didMutations is false
\* after every step of such a handle.
C22_ReadOnlyRejectsMutate ==
  [][/\ (phase = "live" /\ readOnly /\ Active /\ ValidMutate(lastCall'))
          => /\ lastCall'.thrown = Err("fln__dgraph__readonly-mutation")
             /\ lastCall'.reqs = <<>>
             /\ lastCall'.fetched = <<>>
     /\ (phase = "live" /\ readOnly) => ~didMutations']_vars

\* a mutate refused on a read-only handle that had queried before
C22_Witness ==
  /\ readOnly /\ Active
  /\ startTs # 0
  /\ ValidMutate(lastCall)
  /\ lastCall.thrown = Err("fln__dgraph__readonly-mutation")
  /\ ~didMutations

-----------------------------------------------------------------------------
(* C23 *)

\* C23 (as claimed): a call of query, mutate, commit or abort sends at most one
\* request.
C23_AtMostOneRequest == Len(lastCall.reqs) <= 1

\* C23 (amended): a call sends at most one request of its own.  A second request
\* is sent only by a query, mutate or commit whose own request failed, and it is
\* the abort request; abort() sends at most one request.
C23_AtMostOneOwnRequest ==
  /\ Len(lastCall.reqs) <= 2
  /\ Len(lastCall.fetched) = Len(lastCall.reqs)
  /\ lastCall.op = "abort" => Len(lastCall.reqs) <= 1
  /\ Len(lastCall.reqs) = 2
       => /\ lastCall.op \in {"query", "mutate", "commit"}
          /\ TransportFailure(lastCall.fetched[1])
          /\ ~IsAbortRequest(lastCall.reqs[1])
          /\ IsAbortRequest(lastCall.reqs[2])

\* a commit whose request was refused, followed by the abort request
C23_Witness ==
  /\ lastCall.op = "commit"
  /\ Len(lastCall.reqs) = 2
  /\ lastCall.fetched[1].status = 400
  /\ IsAbortRequest(lastCall.reqs[2])

-----------------------------------------------------------------------------
(* C24 *)

\* the parts that are not empty, joined with "&"
RECURSIVE JoinParams(_)
JoinParams(parts) ==
  IF parts = <<>> THEN ""
  ELSE LET rest == JoinParams(Tail(parts))
       IN IF Head(parts) = "" THEN rest
          ELSE IF rest = "" THEN Head(parts)
          ELSE Head(parts) \o "&" \o rest

\* timeout, ro and be as the query request carries them
QueryOptions ==
  <<IF timeout > 0 THEN "timeout=" \o ToString(timeout) \o "s" ELSE "",
    IF readOnly THEN "ro=true" ELSE "",
    IF bestEffort THEN "be=true" ELSE "">>

\* the target of a query request: startTs iff non-zero, hash iff non-empty
QueryTarget ==
  endpoint \o "/query?"
    \o JoinParams(<<IF startTs # 0 THEN "startTs=" \o ToString(startTs) ELSE "",
                    IF hash # "" THEN "hash=" \o hash ELSE "">> \o QueryOptions)

\* the query call sent its request
QuerySent(call) == call.op = "query" /\ Len(call.reqs) >= 1

-----------------------------------------------------------------------------
(* C25 *)

\* the target of a mutate request: commitNow=true iff commitNow, startTs iff
\* non-zero, hash iff non-empty, and the "?" only when one of them is there
MutateTarget(commitNow) ==
  LET params == JoinParams(<<IF commitNow THEN "commitNow=true" ELSE "",
                             IF startTs # 0 THEN "startTs=" \o ToString(startTs) ELSE "",
                             IF hash # "" THEN "hash=" \o hash ELSE "">>)
  IN endpoint \o "/mutate" \o (IF params = "" THEN "" ELSE "?" \o params)

\* the mutate call sent its request
MutateSent(call) == call.op = "mutate" /\ Len(call.reqs) >= 1

\* C25: the request of a mutate is a POST to <endpoint>/mutate, followed by
\* ?<params> only when a parameter is included, the parameters being
\* commitNow=true (iff commitNow), startTs (iff non-zero), hash (iff non-empty)
\* in this order; its body is { set { <mutation> } } when mutation is given and
\* { delete { <remove> } } when remove is given, its content type is rdf.
C25_MutateTarget ==
  [][(phase = "live" /\ MutateSent(lastCall'))
       => LET req == lastCall'.reqs[1]
              args == lastCall'.args
          IN /\ req.url = MutateTarget(args.commitNow)
             /\ req.method = "POST"
             /\ req.ContentType = rdf
             /\ args.mutation # "" => req.body = "{ set { " \o args.mutation \o " } }"
             /\ args.remove # "" => req.body = "{ delete { " \o args.remove \o " } }"]_vars

\* the first mutate of a handle, with remove and without commitNow: no "?"
C25_Witness ==
  /\ MutateSent(lastCall)
  /\ lastCall.args.remove = "<abc> * * ."
  /\ lastCall.reqs[1].url = "https://example.com/mutate"
  /\ lastCall.reqs[1].body = "{ delete { <abc> * * . } }"

-----------------------------------------------------------------------------
(* C26 *)

\* C26: abort() on a handle that mutated and is not aborted sends exactly one
\* request, whatever that request's outcome: a POST to
\* <endpoint>/commit?startTs=<startTs>&hash=<hash>&abort=true, the three
\* parameters present whatever their value, without body and without content
\* type.  The handle is marked aborted before the request is sent: it is aborted
\* afterwards even when the request fails, and that failure sends nothing more.
C26_FirstAbortRequest ==
  [][(/\ phase = "live" /\ ~isAborted /\ didMutations
      /\ lastCall'.op = "abort")
       => /\ Len(lastCall'.reqs) = 1
          /\ lastCall'.reqs[1].method = "POST"
          /\ lastCall'.reqs[1].url = endpoint \o "/commit?startTs=" \o ToString(startTs)
                                         \o "&hash=" \o hash \o "&abort=true"
          /\ ~lastCall'.reqs[1].hasBody
          /\ ~lastCall'.reqs[1].hasContentType
          /\ isAborted']_vars

\* abort() whose request was refused, on a handle that mutated before it had a
\* startTs or a hash
C26_Witness ==
  /\ lastCall.op = "abort"
  /\ Len(lastCall.reqs) = 1
  /\ lastCall.reqs[1].url = "https://example.com/commit?startTs=0&hash=&abort=true"
  /\ lastCall.fetched[1].status = 400
  /\ lastCall.thrown # NoError
  /\ isAborted /\ didMutations

-----------------------------------------------------------------------------
(* C27 *)

\* the targets of the commit request and of the abort request
CommitTarget ==
  endpoint \o "/commit?startTs=" \o ToString(startTs) \o "&hash=" \o hash
AbortTarget == CommitTarget \o "&abort=true"

\* the target of the request a call sends first, built from the handle's fields
OwnTarget(call) ==
  IF call.op = "query" THEN QueryTarget
  ELSE IF call.op = "mutate" THEN MutateTarget(call.args.commitNow)
  ELSE IF call.op = "commit" THEN CommitTarget
  ELSE AbortTarget

\* C27: a step changes the hash exactly when it reconciles a response whose
\* metadata carries a non-empty hash, and then to that hash; a reconciled
\* response without a hash, a response without metadata and every other call
\* leave it unchanged.  Every request a call sends is built from the hash the
\* handle holds, the most recently adopted one: hash=<hash> in a query or mutate
\* request when it is non-empty, and always in a commit or abort request.
C27_HashFollowsResponses ==
  [][/\ (phase = "live" /\ Reconciled(lastCall'))
          => hash' = (IF lastCall'.fetched[1].body.txn.hash # ""
                      THEN lastCall'.fetched[1].body.txn.hash ELSE hash)
     /\ ~Reconciled(lastCall') => hash' = hash
     /\ (phase = "live" /\ Len(lastCall'.reqs) >= 1)
          => lastCall'.reqs[1].url = OwnTarget(lastCall')
     /\ (phase = "live" /\ Len(lastCall'.reqs) = 2)
          => lastCall'.reqs[2].url = AbortTarget]_vars

\* a query sent with hash h1 whose response brought hash h2
C27_Witness ==
  /\ Reconciled(lastCall)
  /\ lastCall.op = "query"
  /\ lastCall.thrown = NoError
  /\ lastCall.reqs[1].url = "https://example.com/query?startTs=9&hash=h1&timeout=600s"
  /\ lastCall.fetched[1].body.txn.hash = "h2"
  /\ hash = "h2"

-----------------------------------------------------------------------------
(* C28 *)

\* C28: the constructor fails with missing-params when params is missing or not
\* an object, else with missing-apiKey when apiKey is falsy, else with
\* missing-endpoint when endpoint is falsy, and succeeds otherwise.  After a
\* failed construction there is no handle: no field was assigned and no method
\* can be called.
C28_ConstructorOrder ==
  [][/\ phase # "failed"
     /\ lastCall'.op = "constructor"
          => LET params == lastCall'.args
                 id == lastCall'.thrown.id
             IN /\ phase = "new"
                /\ ~params.given => id = "fln__dgraph__missing-params"
                /\ (params.given /\ params.apiKey = "") => id = "fln__dgraph__missing-apiKey"
                /\ (params.given /\ params.apiKey # "" /\ params.endpoint = "")
                     => id = "fln__dgraph__missing-endpoint"
                /\ (params.given /\ params.apiKey # "" /\ params.endpoint # "")
                     => /\ lastCall'.thrown = NoError
                        /\ phase' = "live"
                        /\ apiKey' = params.apiKey
                        /\ endpoint' = params.endpoint
                /\ lastCall'.thrown # NoError
                     => /\ phase' = "failed"
                        /\ UNCHANGED <<keys, preds, hash, apiKey, endpoint, startTs, timeout,
                                       readOnly, bestEffort, isClosed, isCommited, isAborted,
                                       didMutations>>]_vars

\* a construction given neither apiKey nor endpoint: the apiKey error comes first
C28_Witness ==
  /\ phase = "failed"
  /\ lastCall.op = "constructor"
  /\ lastCall.args.given
  /\ lastCall.args.apiKey = "" /\ lastCall.args.endpoint = ""
  /\ lastCall.thrown = Err("fln__dgraph__missing-apiKey")

-----------------------------------------------------------------------------
(* C29 *)

\* the call failed with the start-ts-mismatch error
Mismatched(call) == call.thrown.id = "fln__dgraph__start-ts-mismatch"

\* C29: a call that fails with the start-ts-mismatch error leaves hash, startTs,
\* keys and preds as they were before the call.
C29_MismatchAdoptsNothing ==
  [][Mismatched(lastCall') => UNCHANGED <<hash, startTs, keys, preds>>]_vars

-----------------------------------------------------------------------------
(* C30 *)

\* C30: a call that fails with the start-ts-mismatch error has sent its one
\* request and nothing else, and does not abort: the handle is Active
\* afterwards, with didMutations as the call's validation left it, and the next
\* call of query, of mutate (valid input, handle not read-only), of commit or of
\* abort passes its validation as on any Active handle.
C30_MismatchDoesNotAbort ==
  [][/\ Mismatched(lastCall')
          => /\ Len(lastCall'.reqs) = 1
             /\ ~IsAbortRequest(lastCall'.reqs[1])
             /\ Active /\ Active'
             /\ ~history'.abortSent
     /\ (/\ Mismatched(lastCall)
         /\ lastCall'.op = "abort" \/ GuardedCall(lastCall')
         /\ ValidMutate(lastCall') => ~readOnly)
          => PassedValidation(lastCall')]_vars

\* a mutate that failed with the start-ts-mismatch error on a handle that had
\* mutated before: one request, no abort request, the handle still Active
C30_Witness ==
  /\ lastCall.op = "mutate"
  /\ Mismatched(lastCall)
  /\ Len(lastCall.reqs) = 1
  /\ lastCall.reqs[1].url = "https://example.com/mutate?startTs=9&hash=h1"
  /\ didMutations
  /\ Active
  /\ keys # <<>>

-----------------------------------------------------------------------------
(* C31 *)

\* C31 (as claimed): once a commit() that sent its request, or a mutate with
\* commitNow, has returned its response, no call sends an abort request.
C31_NoAbortAfterCommit ==
  [][history.committed => AbortsIn(lastCall'.reqs) = 0]_vars

\* C31 (amended): once a commit has succeeded, a call of query, mutate or commit
\* sends no request at all, so no abort request; abort() still sends the abort
\* request: exactly one when the handle is not yet aborted, none afterwards.
C31_OnlyAbortCallAborts ==
  [][history.committed
       => /\ lastCall'.op \in {"query", "mutate", "commit", "abort"}
          /\ lastCall'.op # "abort" => lastCall'.reqs = <<>>
          /\ (lastCall'.op = "abort" /\ isAborted) => lastCall'.reqs = <<>>
          /\ (lastCall'.op = "abort" /\ ~isAborted)
               => /\ Len(lastCall'.reqs) = 1
                  /\ AbortsIn(lastCall'.reqs) = 1
                  /\ isAborted' /\ isCommited']_vars

\* abort() after a commit that succeeded: the abort request is sent
C31_Witness ==
  /\ history.committed
  /\ history.commits = 1
  /\ lastCall.op = "abort"
  /\ Len(lastCall.reqs) = 1
  /\ lastCall.reqs[1].url = "https://example.com/commit?startTs=9&hash=h1&abort=true"
  /\ isCommited /\ isAborted

-----------------------------------------------------------------------------
(* C32 *)

\* the commit requests and the abort requests among the requests a call sent
CommitOrAbort(call) ==
  {i \in DOMAIN call.reqs : call.reqs[i].ContentType = json \/ ~call.reqs[i].hasBody}

\* C32 (as claimed): a call that has sent a commit request or an abort request
\* holds a non-zero startTs.
C32_StartTsAssigned == CommitOrAbort(lastCall) # {} => startTs # 0

\* C32 (amended): a commit request or an abort request names the startTs and the
\* hash that the handle holds, whatever their value; startTs is non-zero exactly
\* when the metadata of a response has been reconciled, and as long as none has
\* been the request goes out with startTs=0 and an empty hash.
C32_RequestNamesHeldStartTs ==
  [][(phase = "live" /\ CommitOrAbort(lastCall') # {})
       => /\ \A i \in CommitOrAbort(lastCall') :
               lastCall'.reqs[i].url = (IF lastCall'.reqs[i].hasBody THEN CommitTarget
                                        ELSE AbortTarget)
          /\ startTs # 0 <=> history.reconciled
          /\ startTs = 0 => hash = ""
          /\ UNCHANGED <<startTs, hash>>]_vars

\* the commit request of a handle whose mutate was answered without metadata
C32_Witness ==
  /\ lastCall.op = "commit"
  /\ Len(lastCall.reqs) = 1
  /\ lastCall.reqs[1].url = "https://example.com/commit?startTs=0&hash="
  /\ lastCall.thrown = NoError
  /\ ~history.reconciled
  /\ startTs = 0

-----------------------------------------------------------------------------
(* C33 *)

\* C33: on a handle constructed with readOnly = true, didMutations is false
\* after every step, and every request any call sends, whatever fails, is the
\* one request of a query: never a mutate, commit or abort request.
C33_ReadOnlyOnlyQueries ==
  [][(phase = "live" /\ readOnly)
       => /\ ~didMutations'
          /\ readOnly'
          /\ lastCall'.op # "query" => lastCall'.reqs = <<>>
          /\ Len(lastCall'.reqs) <= 1
          /\ \A i \in DOMAIN lastCall'.reqs :
               /\ lastCall'.reqs[i].url = QueryTarget
               /\ lastCall'.reqs[i].ContentType = dql
               /\ lastCall'.reqs[i].hasBody]_vars

\* a query of a read-only handle whose request was refused: the handle is
\* aborted and no abort request has been sent
C33_Witness ==
  /\ readOnly
  /\ lastCall.op = "query"
  /\ Len(lastCall.reqs) = 1
  /\ lastCall.fetched[1].status = 400
  /\ lastCall.thrown # NoError
  /\ isAborted
  /\ ~didMutations
  /\ ~history.abortSent

-----------------------------------------------------------------------------
(* C34 *)

\* a query with closeWhenDone or a mutate with commitNow that sent its request
Finishing(call) ==
  /\ \/ call.op = "query" /\ call.args.closeWhenDone
     \/ call.op = "mutate" /\ call.args.commitNow
  /\ Len(call.fetched) >= 1

\* C34: when the request of a query with closeWhenDone or of a mutate with
\* commitNow fails at the transport level, the handle is neither closed nor
\* committed afterwards: aborted is the only terminal flag that is true.
C34_FailureOnlyAborts ==
  (Finishing(lastCall) /\ TransportFailure(lastCall.fetched[1]))
    => (isAborted /\ ~isClosed /\ ~isCommited)

-----------------------------------------------------------------------------
(* C36 *)

\* the fetch was rejected, or answered with a 2xx status and a body that does
\* not parse as JSON
RaisedInside(o) ==
  \/ o.kind = "reject"
  \/ o.kind = "resp" /\ o.status >= 200 /\ o.status < 300 /\ ~o.body.valid

\* C36: when the fetch of a query, mutate or commit is rejected, or its 2xx
\* response has a body that does not parse, the handle is aborted, the abort
\* request is sent if didMutations is true, and the caller gets that exception.
C36_ExceptionRethrown ==
  (Requested(lastCall) /\ RaisedInside(lastCall.fetched[1]))
    => /\ isAborted
       /\ lastCall.thrown = Thrown(lastCall.fetched[1])
       /\ didMutations => (Len(lastCall.reqs) = 2 /\ AbortsIn(lastCall.reqs) = 1)
       /\ ~didMutations => Len(lastCall.reqs) = 1

-----------------------------------------------------------------------------
(* C35 *)

\* C35: provided every fetch eventually settles, every call that is suspended
\* eventually returns or throws, having sent at most two requests.  A request
\* that failed is not sent again: the only request a call sends after its own is
\* the abort request, sent by a query, mutate or commit whose request failed,
\* with the handle already marked aborted; and whatever the outcome of an abort
\* request, the call ends there without another request.
C35_CallsTerminate ==
  /\ [][phase = "live"
          => /\ lastCall'.sent <= 2
             /\ lastCall'.step = "begin" => lastCall'.sent = Len(lastCall'.reqs)
             /\ (lastCall'.step = "own" /\ lastCall'.reqs # <<>>)
                  => /\ lastCall'.op \in {"query", "mutate", "commit"}
                     /\ TransportFailure(lastCall'.fetched[1])
                     /\ AbortsIn(lastCall'.reqs) = 1
                     /\ lastCall'.sent = 2
             /\ (lastCall'.op = "abort" /\ lastCall'.step = "own")
                  => (lastCall'.done /\ lastCall'.reqs = <<>>)
             /\ lastCall'.step = "abort" => (lastCall'.done /\ lastCall'.reqs = <<>>)
             /\ AbortsIn(lastCall'.reqs) > 0 => isAborted']_vars
  /\ \A s \in 1..MaxPending : (pending[s] # Idle) ~> (pending[s] = Idle)

\* a mutate whose request failed and whose abort request failed too: the call
\* has ended after two requests
C35_Witness ==
  /\ lastCall.op = "mutate"
  /\ lastCall.step = "abort"
  /\ lastCall.done
  /\ lastCall.sent = 2
  /\ lastCall.fetched[1].status = 400
  /\ lastCall.thrown = Thrown(lastCall.fetched[1])
  /\ isAborted
  /\ history.aborts = 1

-----------------------------------------------------------------------------
(* C37 *)

\* C37: also when calls are interleaved, the handle sends at most one commit
\* request and at most one abort request in its life.
C37_OneCommitOneAbort ==
  /\ history.commits <= 1
  /\ history.aborts <= 1

\* commit() and then abort() are suspended at their requests, and a second
\* commit() called meanwhile is refused
C37_Witness ==
  /\ \E s \in Busy : pending[s].op = "commit" /\ pending[s].stage = "own"
  /\ \E s \in Busy : pending[s].op = "abort" /\ pending[s].stage = "own"
  /\ lastCall.op = "commit"
  /\ lastCall.step = "begin"
  /\ lastCall.thrown = Err("fln__dgraph__already-aborted")
  /\ history.commits = 1
  /\ history.aborts = 1

-----------------------------------------------------------------------------
(* C38 *)

\* closed, committed or aborted
Terminal == isClosed \/ isCommited \/ isAborted

\* C38 (as claimed): once the handle is closed, committed or aborted, no step
\* changes startTs, hash, keys or preds, the resumption of a call that was
\* suspended when the flag was set included.
C38_TerminalFreezesMetadata ==
  [][(phase = "live" /\ Terminal) => UNCHANGED <<startTs, hash, keys, preds>>]_vars

\* C38 (amended): once the handle is closed, committed or aborted, a call that
\* begins changes none of startTs, hash, keys and preds, so they never change
\* while no call is suspended; they change only when a query without
\* closeWhenDone or a mutate without commitNow that was suspended at its request
\* resumes with a response that carries metadata, which it reconciles as on an
\* Active handle.
C38_OnlyResumedCallsChange ==
  [][(phase = "live" /\ Terminal)
       => /\ (lastCall'.step = "begin" \/ Busy = {})
               => UNCHANGED <<startTs, hash, keys, preds>>
          /\ <<startTs, hash, keys, preds>>' # <<startTs, hash, keys, preds>>
               => /\ lastCall'.step = "own"
                  /\ lastCall'.op \in {"query", "mutate"}
                  /\ ~lastCall'.args.closeWhenDone /\ ~lastCall'.args.commitNow
                  /\ ~apiThrows(lastCall'.fetched[1])
                  /\ lastCall'.fetched[1].body.hasTxn
                  /\ LET txn == lastCall'.fetched[1].body.txn
                     IN /\ hash' = (IF txn.hash # "" THEN txn.hash ELSE hash)
                        /\ startTs' = (IF startTs = 0 THEN txn.start_ts ELSE startTs)
                        /\ Range(keys) \subseteq Range(keys')
                        /\ Range(preds) \subseteq Range(preds')]_vars

\* a query that was suspended when commit() sent the commit request resumes
\* with a response and reconciles its metadata on the committed handle
C38_Witness ==
  /\ isCommited
  /\ \E s \in Busy : pending[s].op = "commit" /\ pending[s].stage = "own"
  /\ lastCall.op = "query"
  /\ lastCall.step = "own"
  /\ lastCall.thrown = NoError
  /\ lastCall.fetched[1].body.txn.hash = "h2"
  /\ hash = "h2" /\ startTs = 18

====
